---- MODULE Spec2Model ----
(***************************************************************************)
(* periodicity/periodogram.py: the three wrappers lombscargle, window and  *)
(* wavelet over astropy.stats.LombScargle and wavelets.WaveletAnalysis.    *)
(*                                                                         *)
(* One call runs at a time.  pc is the source line the call is about to    *)
(* execute, args the arguments as passed, local the function's local       *)
(* variables, calls the library calls made so far in order, result the     *)
(* returned tuple and err the exception that ended the call.               *)
(*                                                                         *)
(* Python values are tagged tuples: None, floats as exact fractions, nan,  *)
(* strings, arrays and scalars.  The wrapped libraries are not part of the *)
(* repository: every call into them either raises or returns one of a      *)
(* small set of values, chosen by the library.                             *)
(***************************************************************************)
EXTENDS Integers, Sequences, FiniteSets, TLC

VARIABLES fn, pc, args, local, calls, result, err

vars == <<fn, pc, args, local, calls, result, err>>

\* ------------------------------------------------------------------ bounds

\* longest time array passed to a call
MaxLen == 4

\* ------------------------------------------------------------ Python values

None == <<"None">>

NaN == <<"nan">>

Unset == <<"unset">>

\* a keyword argument the call site does not pass
Default == <<"default">>

Str(s) == <<"str", s>>

Arr(s) == <<"array", s>>

Scalar(v) == <<"scalar", v>>

Bool(b) == <<"bool", b>>

Abs(i) == IF i < 0 THEN -i ELSE i

RECURSIVE Gcd(_, _)
Gcd(p, q) == IF q = 0 THEN p ELSE Gcd(q, p % q)

\* the float p/q, q # 0, in lowest terms with a positive denominator
Float(p, q) ==
    LET g == Gcd(Abs(p), Abs(q))
        s == IF q < 0 THEN -1 ELSE 1
    IN  <<"float", (s * p) \div g, (s * q) \div g>>

IsFloat(v) == v[1] = "float"

Num(v) == v[2]

Den(v) == v[3]

\* ------------------------------------------------------------------- numpy

\* np.diff(t): consecutive differences, empty when t has fewer than 2 samples
Diff(t) == IF Len(t) < 2 THEN <<>> ELSE [i \in 1..(Len(t) - 1) |-> t[i + 1] - t[i]]

\* the k-th smallest element of s (1-based), as np.partition selects it
KthSmallest(s, k) ==
    CHOOSE v \in {s[i] : i \in DOMAIN s} :
        /\ Cardinality({i \in DOMAIN s : s[i] < v}) < k
        /\ Cardinality({i \in DOMAIN s : s[i] <= v}) >= k

\* float(np.median(d)): nan for an empty array, the middle element for an odd
\* length, the mean of the two middle elements for an even length
Median(d) ==
    LET len == Len(d)
    IN  IF len = 0 THEN NaN
        ELSE IF len % 2 = 1 THEN Float(KthSmallest(d, (len + 1) \div 2), 1)
        ELSE Float(KthSmallest(d, len \div 2) + KthSmallest(d, len \div 2 + 1), 2)

\* a.max(); the caller excludes the empty array, on which numpy raises
ArrayMax(a) ==
    LET s == a[2]
    IN  Scalar(CHOOSE v \in {s[i] : i \in DOMAIN s} : \A i \in DOMAIN s : s[i] <= v)

\* ------------------------------------------------------- float arithmetic

\* 1 / T (line 51) raises ZeroDivisionError on the Python float 0.0
DivisionRaises(T) == IsFloat(T) /\ Num(T) = 0

\* 1 / T for T # 0; nan stays nan
Reciprocal(T) == IF IsFloat(T) THEN Float(Den(T), Num(T)) ELSE NaN

\* fs / 2 (line 52)
HalfOf(v) == IF IsFloat(v) THEN Float(Num(v), 2 * Den(v)) ELSE NaN

\* ------------------------------------------------------------ input values

RECURSIVE SeqsUpTo(_, _)
SeqsUpTo(S, k) ==
    IF k = 0 THEN {<<>>}
    ELSE LET shorter == SeqsUpTo(S, k - 1)
         IN  shorter \cup {Append(s, v) : s \in {r \in shorter : Len(r) = k - 1}, v \in S}

\* sample times: repeated, decreasing and unevenly spaced arrays included
TimeValues == {0, 1, 2}

TimeArrays == SeqsUpTo(TimeValues, MaxLen)

\* the array of k copies of v
Full(k, v) == IF k = 0 THEN <<>> ELSE [i \in 1..k |-> v]

\* signals sampled at t: one value per sample, or an array of another length
Signals(t) == {Arr(Full(Len(t), 7)), Arr(<<>>)}

Uncertainties(t) == {None, Arr(Full(Len(t), 1))}

MinFrequencies == {Float(0, 1), Float(1, 4)}

MaxFrequencies == {None, Float(0, 1), Float(3, 1)}

SamplesPerPeak == {5, 1}

FapMethods == {None, Str("baluev"), Str("bootstrap"), Str("davies")}

FapLevels == {None, Float(1, 100)}

MinPeriods == {Float(0, 1), Float(2, 1)}

MaxPeriods == {None, Float(3, 1)}

PeriodCounts == {1000, 2}

\* -------------------------------------------------- library return values

\* (frequency, power) array pairs autopower may return
Periodograms == {<<Arr(<<>>), Arr(<<>>)>>,
                 <<Arr(<<1, 2>>), Arr(<<3, 5>>)>>,
                 <<Arr(<<1, 2>>), Arr(<<6, 3>>)>>}

FapValue == Float(1, 20)

FalValue == Float(7, 10)

\* period arrays wa.fourier_periods may hold: the library derives its scales
\* from the arguments it was given
PeriodArrays == {Arr(<<>>), Arr(<<1, 2>>), Arr(<<2, 4, 8>>)}

\* wa.wavelet_power: one row per period, one column per sample
PowerSpectrum(periods, x) == <<"array2d", Len(periods[2]), Len(x[2])>>

\* wa.global_wavelet_spectrum: the power projected on the period axis
GlobalSpectrum(periods) == Arr(Full(Len(periods[2]), 1))

\* --------------------------------------------------------------- outcomes

LibraryError(origin) == <<"LibraryError", origin>>

AssertionError == <<"AssertionError", "lombscargle">>

ZeroDivisionError == <<"ZeroDivisionError", "lombscargle">>

NoError == <<"none", "none">>

NoResult == <<>>

\* -------------------------------------------------------------- the state

NoLocals ==
    [fmax |-> Unset, T |-> Unset, ls |-> Unset, f |-> Unset, a |-> Unset,
     fap |-> Unset, fal |-> Unset, dt |-> Unset, wa |-> Unset,
     periods |-> Unset, wps |-> Unset, gwps |-> Unset]

Init ==
    /\ fn = "none"
    /\ pc = "idle"
    /\ args = <<>>
    /\ local = NoLocals
    /\ calls = <<>>
    /\ result = NoResult
    /\ err = NoError

\* an exception leaves the function
Raise(e) ==
    /\ err' = e
    /\ pc' = "raised"
    /\ UNCHANGED <<fn, args, local, result>>

Return(tuple) ==
    /\ result' = tuple
    /\ pc' = "returned"
    /\ UNCHANGED <<fn, args, err>>

Goto(line) ==
    /\ pc' = line
    /\ UNCHANGED <<fn, args, result, err>>

LibCall(name, a) == Append(calls, <<name, a>>)

\* the object a library constructor returns: the arguments it was built from
Object(class, a) == <<class, a>>

\* ------------------------------------------------------------- lombscargle

\* a slip that asks for the unnormalized periodogram whatever the flag
Normalization_AlwaysPsd(psd) == Str("psd")

\* the normalization keyword of lines 45-48
Normalization(psd) == IF psd THEN Str("psd") ELSE Default

\* a slip that lets through another method name astropy knows
KnownFapMethods_WithDavies == {Str("baluev"), Str("bootstrap"), Str("davies")}

\* the names line 55 accepts
KnownFapMethods == {Str("baluev"), Str("bootstrap")}

\* a slip that tests the truth value (if not fmax) and so treats 0 as missing
UsesDefaultFmax_Falsy(fmax) == fmax = None \/ fmax = Float(0, 1)

\* line 49
UsesDefaultFmax(fmax) == fmax = None

\* lines 51-52: fs = 1 / T; fmax = fs / 2
PseudoNyquist(T) == HalfOf(Reciprocal(T))

\* line 54
FapRequested(fap_method) == fap_method # None

\* a slip that asks for the level whether or not fap_level was given
FalRequested_Always(fap_level) == TRUE

\* line 58
FalRequested(fap_level) == fap_level # None

Call_lombscargle ==
    /\ pc = "idle"
    /\ \E t \in TimeArrays, f0 \in MinFrequencies, fmax \in MaxFrequencies, n \in SamplesPerPeak,
          fap_method \in FapMethods, fap_level \in FapLevels, psd \in BOOLEAN :
       \E x \in Signals(t), dx \in Uncertainties(t) :
          /\ args' = [t |-> t, x |-> x, dx |-> dx, f0 |-> f0, fmax |-> fmax, n |-> n,
                      fap_method |-> fap_method, fap_level |-> fap_level, psd |-> psd]
          /\ local' = [NoLocals EXCEPT !.fmax = fmax]
    /\ fn' = "lombscargle"
    /\ pc' = "L45"
    /\ UNCHANGED <<calls, result, err>>

\* LombScargle(t, y, dy, normalization, fit_mean, center_data) at lines 46, 48
LombScargleArgs == <<Arr(args.t), args.x, args.dx, Normalization(args.psd), Default, Default>>

\* lines 45-48: ls = LombScargle(t, x, dy=dx[, normalization='psd'])
LS_Construct ==
    /\ pc = "L45"
    /\ calls' = LibCall("LombScargle", LombScargleArgs)
    /\ \/ Raise(LibraryError("LombScargle"))
       \/ /\ local' = [local EXCEPT !.ls = Object("LombScargle", LombScargleArgs)]
          /\ Goto("L49")

\* lines 49-52: the default maximum frequency
LS_ResolveFmax ==
    /\ pc = "L49"
    /\ UNCHANGED calls
    /\ IF UsesDefaultFmax(local.fmax)
       THEN LET T == Median(Diff(args.t))
            IN  IF DivisionRaises(T)
                THEN /\ err' = ZeroDivisionError
                     /\ pc' = "raised"
                     /\ local' = [local EXCEPT !.T = T]
                     /\ UNCHANGED <<fn, args, result>>
                ELSE /\ local' = [local EXCEPT !.T = T, !.fmax = PseudoNyquist(T)]
                     /\ Goto("L53")
       ELSE /\ Goto("L53")
            /\ UNCHANGED local

\* samples_per_peak, minimum_frequency, maximum_frequency at line 53
AutopowerArgs == <<args.n, args.f0, local.fmax>>

\* line 53: f, a = ls.autopower(...)
LS_Autopower ==
    /\ pc = "L53"
    /\ calls' = LibCall("autopower", AutopowerArgs)
    /\ \/ Raise(LibraryError("autopower"))
       \/ \E fa \in Periodograms :
             /\ local' = [local EXCEPT !.f = fa[1], !.a = fa[2]]
             /\ Goto("L54")

\* lines 54-55 and 63: the method check, or the three-element return
LS_CheckFapMethod ==
    /\ pc = "L54"
    /\ UNCHANGED calls
    /\ IF ~FapRequested(args.fap_method)
       THEN /\ Return(<<local.ls, local.f, local.a>>)
            /\ UNCHANGED local
       ELSE IF args.fap_method \notin KnownFapMethods
       THEN Raise(AssertionError)
       ELSE /\ Goto("L56")
            /\ UNCHANGED local

\* z, method, minimum_frequency, maximum_frequency, samples_per_peak at lines 56-57
FapArgs == <<ArrayMax(local.a), args.fap_method, args.f0, local.fmax, args.n>>

\* lines 56-57: fap = ls.false_alarm_probability(a.max(), ...)
LS_FalseAlarmProbability ==
    /\ pc = "L56"
    /\ IF local.a = Arr(<<>>)
       THEN /\ calls' = LibCall("max", <<local.a>>)
            /\ Raise(LibraryError("max"))
       ELSE /\ calls' = LibCall("false_alarm_probability", FapArgs)
            /\ \/ Raise(LibraryError("false_alarm_probability"))
               \/ /\ local' = [local EXCEPT !.fap = FapValue]
                  /\ Goto("L58")

\* a slip that passes the caller's fmax, not the resolved one
FalArgs_CallerFmax == <<args.fap_level, args.fap_method, args.f0, args.fmax, args.n>>

\* fap_level, method, minimum_frequency, maximum_frequency, samples_per_peak at lines 59-60
FalArgs == <<args.fap_level, args.fap_method, args.f0, local.fmax, args.n>>

\* lines 58-62: the optional false alarm level and the two longer returns
LS_FalseAlarmLevel ==
    /\ pc = "L58"
    /\ IF FalRequested(args.fap_level)
       THEN /\ calls' = LibCall("false_alarm_level", FalArgs)
            /\ \/ Raise(LibraryError("false_alarm_level"))
               \/ /\ local' = [local EXCEPT !.fal = FalValue]
                  /\ Return(<<local.ls, local.f, local.a, local.fap, FalValue>>)
       ELSE /\ Return(<<local.ls, local.f, local.a, local.fap>>)
            /\ UNCHANGED <<local, calls>>

\* ------------------------------------------------------------------ window

Call_window ==
    /\ pc = "idle"
    /\ \E t \in TimeArrays, n \in SamplesPerPeak :
          args' = [t |-> t, n |-> n]
    /\ fn' = "window"
    /\ pc' = "L82"
    /\ UNCHANGED <<local, calls, result, err>>

\* a slip that leaves the mean fit on
WindowModelArgs_FitMean == <<Arr(args.t), Scalar(1), Default, Default, Default, Bool(FALSE)>>

\* LombScargle(t, 1, fit_mean=False, center_data=False) at line 82
WindowModelArgs == <<Arr(args.t), Scalar(1), Default, Default, Bool(FALSE), Bool(FALSE)>>

\* line 82
Win_Construct ==
    /\ pc = "L82"
    /\ calls' = LibCall("LombScargle", WindowModelArgs)
    /\ \/ Raise(LibraryError("LombScargle"))
       \/ /\ local' = [local EXCEPT !.ls = Object("LombScargle", WindowModelArgs)]
          /\ Goto("L83")

\* samples_per_peak, minimum_frequency, maximum_frequency at line 83
WindowAutopowerArgs == <<args.n, Float(0, 1), Default>>

\* line 83
Win_Autopower ==
    /\ pc = "L83"
    /\ calls' = LibCall("autopower", WindowAutopowerArgs)
    /\ \/ Raise(LibraryError("autopower"))
       \/ \E fa \in Periodograms :
             /\ local' = [local EXCEPT !.f = fa[1], !.a = fa[2]]
             /\ Goto("L84")

\* line 84
WindowResult == <<local.f, local.a>>

Win_Return ==
    /\ pc = "L84"
    /\ Return(WindowResult)
    /\ UNCHANGED <<local, calls>>

\* ----------------------------------------------------------------- wavelet

Call_wavelet ==
    /\ pc = "idle"
    /\ \E t \in TimeArrays, pmin \in MinPeriods, pmax \in MaxPeriods,
          n_periods \in PeriodCounts :
       \E x \in Signals(t) :
          args' = [t |-> t, x |-> x, pmin |-> pmin, pmax |-> pmax, n_periods |-> n_periods]
    /\ fn' = "wavelet"
    /\ pc' = "L114"
    /\ UNCHANGED <<local, calls, result, err>>

\* line 114: dt = float(np.median(np.diff(t)))
Wav_SamplingInterval ==
    /\ pc = "L114"
    /\ local' = [local EXCEPT !.dt = Median(Diff(args.t))]
    /\ Goto("L115")
    /\ UNCHANGED calls

\* WaveletAnalysis(data, time, dt, mask_coi, unbias) at line 115
WaveletArgs == <<args.x, Arr(args.t), local.dt, Bool(TRUE), Bool(TRUE)>>

\* line 115
Wav_Construct ==
    /\ pc = "L115"
    /\ calls' = LibCall("WaveletAnalysis", WaveletArgs)
    /\ \/ Raise(LibraryError("WaveletAnalysis"))
       \/ /\ local' = [local EXCEPT !.wa = Object("WaveletAnalysis", WaveletArgs)]
          /\ Goto("L116")

\* line 116: periods = wa.fourier_periods
Wav_Periods ==
    /\ pc = "L116"
    /\ calls' = LibCall("fourier_periods", <<local.wa>>)
    /\ \/ Raise(LibraryError("fourier_periods"))
       \/ \E p \in PeriodArrays :
             /\ local' = [local EXCEPT !.periods = p]
             /\ Goto("L117")

\* lines 117-118: wps = wa.wavelet_power; gwps = wa.global_wavelet_spectrum
Wav_Power ==
    /\ pc = "L117"
    /\ calls' = calls \o <<<<"wavelet_power", <<local.wa>>>>,
                           <<"global_wavelet_spectrum", <<local.wa>>>>>>
    /\ \/ Raise(LibraryError("wavelet_power"))
       \/ /\ local' = [local EXCEPT !.wps = PowerSpectrum(local.periods, args.x),
                                    !.gwps = GlobalSpectrum(local.periods)]
          /\ Goto("L119")

\* line 119
WaveletResult == <<local.wa, local.periods, local.gwps, local.wps>>

Wav_Return ==
    /\ pc = "L119"
    /\ Return(WaveletResult)
    /\ UNCHANGED <<local, calls>>

\* --------------------------------------------------------- the whole system

Next ==
    \/ Call_lombscargle
    \/ LS_Construct
    \/ LS_ResolveFmax
    \/ LS_Autopower
    \/ LS_CheckFapMethod
    \/ LS_FalseAlarmProbability
    \/ LS_FalseAlarmLevel
    \/ Call_window
    \/ Win_Construct
    \/ Win_Autopower
    \/ Win_Return
    \/ Call_wavelet
    \/ Wav_Construct
    \/ Wav_SamplingInterval
    \/ Wav_Periods
    \/ Wav_Power
    \/ Wav_Return

Spec == Init /\ [][Next]_vars

\* ------------------------------------------------------------- properties

Baluev == Str("baluev")

Bootstrap == Str("bootstrap")

Ended == pc \in {"returned", "raised"}

\* the set of indices of the library calls of one name made so far
CallsOf(name) == {i \in DOMAIN calls : calls[i][1] = name}

\* 1 / (2 * T), nan for nan
HalfInverse(T) == IF IsFloat(T) THEN Float(Den(T), 2 * Num(T)) ELSE NaN

\* the maximum frequency a lombscargle call is to use
ExpectedFmax ==
    IF args.fmax = None THEN HalfInverse(Median(Diff(args.t))) ELSE args.fmax

\* C1 as stated: a lombscargle call whose fap_method is not one of the two
\* strings 'baluev' and 'bootstrap' ends in the assertion error, whatever the
\* other arguments are.
C1_AnyOtherMethodAsserts ==
    (fn = "lombscargle" /\ Ended /\ args.fap_method \notin {Baluev, Bootstrap})
        => err = AssertionError

\* C1 amended: a lombscargle call whose fap_method is neither None nor one of
\* the two strings never returns and never reaches a false-alarm call; it ends
\* in the assertion error unless model construction, the default maximum
\* frequency or autopower raised first.  With fap_method None, or one of the
\* two strings, no assertion error is raised.
C1_UnknownMethodRejected ==
    fn = "lombscargle" =>
        /\ args.fap_method \notin {None, Baluev, Bootstrap} =>
              /\ pc \notin {"L56", "L58", "returned"}
              /\ CallsOf("false_alarm_probability") \cup CallsOf("false_alarm_level") = {}
              /\ pc = "raised" =>
                    err \in {AssertionError, ZeroDivisionError,
                             LibraryError("LombScargle"), LibraryError("autopower")}
              /\ (pc = "raised" /\ CallsOf("autopower") # {}
                    /\ err # LibraryError("autopower")) => err = AssertionError
        /\ args.fap_method \in {None, Baluev, Bootstrap} => err # AssertionError

C1_Witness ==
    /\ fn = "lombscargle"
    /\ pc = "raised"
    /\ err = AssertionError
    /\ args.fap_method = Str("davies")

\* C2: the tuple lombscargle returns has 3 elements when fap_method is None,
\* 4 when fap_method is valid and fap_level is None, 5 when fap_method is valid
\* and fap_level is given; its first three elements are the constructed model
\* and the two arrays autopower returned, the fourth is the false alarm
\* probability and the fifth the false alarm level.
C2_ResultShape ==
    (fn = "lombscargle" /\ pc = "returned") =>
        /\ Len(result) = IF args.fap_method = None THEN 3
                         ELSE IF args.fap_level = None THEN 4 ELSE 5
        /\ args.fap_method # None => args.fap_method \in {Baluev, Bootstrap}
        /\ calls[1][1] = "LombScargle"
        /\ result[1] = Object("LombScargle", calls[1][2])
        /\ <<result[2], result[3]>> \in Periodograms
        /\ result[2] = local.f
        /\ result[3] = local.a
        /\ Len(result) >= 4 => result[4] = FapValue /\ CallsOf("false_alarm_probability") # {}
        /\ Len(result) = 5 => result[5] = FalValue /\ CallsOf("false_alarm_level") # {}
        /\ Len(result) < 5 => CallsOf("false_alarm_level") = {}

C2_Witness ==
    /\ fn = "lombscargle"
    /\ pc = "returned"
    /\ Len(result) = 5
    /\ args.fap_method = Bootstrap

\* C3: the maximum frequency lombscargle forwards to autopower is
\* 1 / (2 * median(diff(t))) when fmax is None, and the caller's fmax unchanged
\* otherwise (0 included), in which case the median interval is never computed.
C3_ForwardedFmax ==
    fn = "lombscargle" =>
        /\ \A i \in CallsOf("autopower") :
              calls[i][2][3] = IF args.fmax = None
                               THEN HalfInverse(Median(Diff(args.t)))
                               ELSE args.fmax
        /\ args.fmax # None => local.T = Unset /\ local.fmax = args.fmax
        /\ (args.fmax = None /\ pc \notin {"L45", "L49"} /\ err # LibraryError("LombScargle"))
              => local.T = Median(Diff(args.t))

C3_Witness ==
    /\ fn = "lombscargle"
    /\ args.fmax = None
    /\ args.t = <<0, 2, 1, 2>>
    /\ \E i \in CallsOf("autopower") : calls[i][2][3] = Float(1, 2)

\* C4: psd selects only the normalization keyword of the model: 'psd' exactly
\* when psd is true, none otherwise; t, x, dx and the frequency grid (f0, fmax,
\* n) reach the library as a function of the other arguments alone.
C4_PsdOnlyNormalization ==
    fn = "lombscargle" =>
        /\ pc # "L45" => CallsOf("LombScargle") = {1}
        /\ \A i \in CallsOf("LombScargle") :
              calls[i][2] = <<Arr(args.t), args.x, args.dx,
                              IF args.psd THEN Str("psd") ELSE Default,
                              Default, Default>>
        /\ \A i \in CallsOf("autopower") :
              calls[i][2] = <<args.n, args.f0, ExpectedFmax>>

C4_Witness ==
    /\ fn = "lombscargle"
    /\ args.psd
    /\ pc = "returned"
    /\ calls[1][2][4] = Str("psd")
    /\ CallsOf("autopower") # {}

\* C5 as stated: wavelet returns a periods array and a global power spectrum
\* whose lengths equal n_periods.
C5_LengthsMatchNPeriods ==
    (fn = "wavelet" /\ pc = "returned") =>
        /\ Len(result[2][2]) = args.n_periods
        /\ Len(result[3][2]) = args.n_periods

\* C6: window builds the model from the constant signal 1 with mean fitting and
\* data centering disabled, asks autopower for a grid from minimum frequency 0
\* with n samples per peak, makes no other library call, and returns exactly
\* the pair (frequencies, power) autopower produced.
C6_WindowCalls ==
    fn = "window" =>
        /\ pc # "L82" =>
              calls[1] = <<"LombScargle",
                           <<Arr(args.t), Scalar(1), Default, Default,
                             Bool(FALSE), Bool(FALSE)>>>>
        /\ pc \in {"L84", "returned"} =>
              calls[2] = <<"autopower", <<args.n, Float(0, 1), Default>>>>
        /\ Len(calls) <= 2
        /\ pc = "returned" =>
              /\ Len(result) = 2
              /\ result \in Periodograms
              /\ result = <<local.f, local.a>>

C6_Witness ==
    /\ fn = "window"
    /\ pc = "returned"
    /\ result = <<Arr(<<1, 2>>), Arr(<<3, 5>>)>>
    /\ args.n = 1

\* C7 as stated: every error of a call is the assertion on the method name or
\* originates inside a call to a wrapped library.
C7_OnlyAssertionOrLibrary ==
    pc = "raised" => (err = AssertionError \/ err[1] = "LibraryError")

\* u <= v on floats
Leq(u, v) == Num(u) * Den(v) <= Num(v) * Den(u)

\* C8 as stated: every period wavelet returns lies between pmin and pmax when
\* pmax is given.
C8_PeriodsWithinBounds ==
    (fn = "wavelet" /\ pc = "returned" /\ args.pmax # None) =>
        \A i \in DOMAIN result[2][2] :
            /\ Leq(args.pmin, Float(result[2][2][i], 1))
            /\ Leq(Float(result[2][2][i], 1), args.pmax)

\* C9 as stated: a lombscargle call rejected for an unknown fap_method has made
\* no library call.
C9_RejectedBeforeAnyCall ==
    (fn = "lombscargle" /\ err = AssertionError) => calls = <<>>

\* minimum_frequency, maximum_frequency, samples_per_peak of a library call
GridOf(call) ==
    IF call[1] = "autopower" THEN <<call[2][2], call[2][3], call[2][1]>>
    ELSE <<call[2][3], call[2][4], call[2][5]>>

GridCalls ==
    CallsOf("autopower") \cup CallsOf("false_alarm_probability")
        \cup CallsOf("false_alarm_level")

\* C10: within one lombscargle call autopower, false_alarm_probability and
\* false_alarm_level receive the same (f0, resolved maximum frequency, n); the
\* probability is evaluated at the maximum of the power array autopower
\* returned, and both false-alarm calls use fap_method.
C10_SameGrid ==
    fn = "lombscargle" =>
        /\ \A i \in GridCalls : GridOf(calls[i]) = <<args.f0, ExpectedFmax, args.n>>
        /\ \A i \in CallsOf("false_alarm_probability") :
              /\ calls[i][2][2] = args.fap_method
              /\ \E k \in DOMAIN local.a[2] : calls[i][2][1] = Scalar(local.a[2][k])
              /\ \A k \in DOMAIN local.a[2] : local.a[2][k] <= calls[i][2][1][2]
        /\ \A i \in CallsOf("false_alarm_level") :
              /\ calls[i][2][2] = args.fap_method
              /\ calls[i][2][1] = args.fap_level

C10_Witness ==
    /\ fn = "lombscargle"
    /\ pc = "returned"
    /\ args.fmax = None
    /\ Cardinality(GridCalls) = 3
    /\ local.a = Arr(<<6, 3>>)

====
